---- MODULE Spec2Model ----
(***************************************************************************)
(* Model of generate_params.py, the job table generator: it enumerates     *)
(* sizes x coupling values x replicas, formats one argument line per       *)
(* combination, writes the lines to jobs/params_production.txt and prints  *)
(* a five-line summary.                                                    *)
(*                                                                         *)
(* Real numbers.  A coupling value is held as an integer count of 10^-7,   *)
(* so 0.46 is 4600000 and 0.4600005 is 4600005.  Python holds it as a      *)
(* binary double: a decimal literal that lies exactly half way between two *)
(* neighbours at 6 (or 3) decimal places is stored slightly above or       *)
(* slightly below the half-way point, so round() and the .3f format send   *)
(* it up or down depending on the value.  The variable fp holds that       *)
(* direction for every half-way case of the run: it is fixed for a value   *)
(* (the same call always returns the same result) and unconstrained        *)
(* otherwise.  E.g. in CPython round(0.4600005, 6) = 0.46 and              *)
(* round(1.0 - 0.4600005, 6) = 0.539999, while round(1.5e-06, 6) = 2e-06   *)
(* and round(1.0 - 1.5e-06, 6) = 0.999999.                                 *)
(***************************************************************************)
EXTENDS Integers, Sequences, FiniteSets, TLC

VARIABLES
    Ls,                 \* line 7
    coarse_lambdas,     \* line 10
    fine_lambdas,       \* line 11
    lambdas,            \* line 12
    samples_per_lambda, \* line 15
    base_seed,          \* line 20
    lines,              \* line 23
    job_id,             \* line 24
    iL,                 \* position of the for loop of line 26 in Ls
    iLam,               \* position of the for loop of line 27 in lambdas
    sample,             \* loop variable of line 28
    k,                  \* number of lines the loop of line 40 has written
    pc,                 \* control point of the process
    dir_exists,         \* whether the directory jobs/ exists
    file,               \* jobs/params_production.txt: [exists, data]
    stdout,             \* what the process has printed
    fp,                 \* direction of every half-way rounding (see above)
    file_before,        \* history: the file as the process found it
    jobs                \* history: one record per executed loop body

vars == <<Ls, coarse_lambdas, fine_lambdas, lambdas, samples_per_lambda,
          base_seed, lines, job_id, iL, iLam, sample, k, pc, dir_exists,
          file, stdout, fp, file_before, jobs>>

config == <<Ls, coarse_lambdas, fine_lambdas, samples_per_lambda, base_seed, fp>>

-----------------------------------------------------------------------------
(* Bounds of the enumerated configurations.                                *)

MaxCoarse == 2

MaxFine == 1

MaxSamples == 2

\* Sizes a configuration may list (each at most once, in any order).
SizeValues == {12, 16}

\* One unit of the fixed-point representation is 10^-7.
One == 10 ^ 7

\* 0.5; 0.4604 and 0.4600005, which agree to 3 decimal places; 0.4600005 is
\* half way between 0.460000 and 0.460001.
LamValues == {5000000, 4604000, 4600005}

\* The base seed of the enumerated configurations (the script's own, 1234, is
\* ProductionSeed below).
BaseSeeds == {1000}

-----------------------------------------------------------------------------
(* Program constants.                                                      *)

maxdim == 256

\* str(1e-12)
cutoff == "1e-12"

ntrials == 1000

chunk4 == 50000

outdir == "output"

-----------------------------------------------------------------------------
(* Python built-ins used by the script.                                    *)

Range(s) == {s[i] : i \in 1..Len(s)}

\* set(xs): the distinct elements of a list.
set(xs) == Range(xs)

\* The elements of S, descending.
RECURSIVE Descending(_)
Descending(S) ==
    IF S = {} THEN <<>>
    ELSE LET x == CHOOSE y \in S : \A z \in S : z <= y
         IN  <<x>> \o Descending(S \ {x})

Reverse(xs) == [i \in 1..Len(xs) |-> xs[Len(xs) + 1 - i]]

\* list(S): the elements of a set, each once, in the set's iteration order,
\* which the language leaves open.  Every order for a set of up to three
\* elements; the descending and the ascending one for a larger set.
list(S) ==
    IF Cardinality(S) <= 3
    THEN {xs \in [1..Cardinality(S) -> S] : Range(xs) = S}
    ELSE {Descending(S), Reverse(Descending(S))}

\* Insert x into the ascending list xs, after the elements equal to it.
RECURSIVE Insert(_, _)
Insert(x, xs) ==
    IF xs = <<>> THEN <<x>>
    ELSE IF x < Head(xs) THEN <<x>> \o xs
    ELSE <<Head(xs)>> \o Insert(x, Tail(xs))

\* sorted(xs): the elements of xs, each as often as in xs, ascending.
RECURSIVE sorted(_)
sorted(xs) ==
    IF xs = <<>> THEN <<>>
    ELSE Insert(xs[Len(xs)], sorted(SubSeq(xs, 1, Len(xs) - 1)))

\* v rounded to a multiple of step; a value half way goes up iff `up`.
RoundTo(v, step, up) ==
    LET r  == v % step
        lo == v - r
    IN  IF 2 * r < step THEN lo
        ELSE IF 2 * r > step THEN lo + step
        ELSE IF up THEN lo + step ELSE lo

IsHalfWay(v, step) == 2 * (v % step) = step

\* The direction in which the double holding v leaves the half-way point.
Up(v, step) == IF <<v, step>> \in DOMAIN fp THEN fp[<<v, step>>] ELSE FALSE

\* round(x, 6).
Step6 == One \div (10 ^ 6)

round6(x) == RoundTo(x, Step6, Up(x, Step6))

\* n as exactly `width` decimal digits.
RECURSIVE Pad(_, _)
Pad(n, width) ==
    IF width = 0 THEN "" ELSE Pad(n \div 10, width - 1) \o ToString(n % 10)

\* n without its trailing zeros (n > 0).
RECURSIVE Strip(_)
Strip(n) == IF n % 10 = 0 THEN Strip(n \div 10) ELSE n

\* The number of decimal digits of n (n > 0).
RECURSIVE NDigits(_)
NDigits(n) == IF n < 10 THEN 1 ELSE 1 + NDigits(n \div 10)

\* The number of trailing zeros of n (n > 0).
RECURSIVE NZeros(_)
NZeros(n) == IF n % 10 = 0 THEN 1 + NZeros(n \div 10) ELSE 0

\* str(x) of a float 0 <= x: the shortest decimal that reads back as x, with
\* at least one digit after the point, in exponent form below 0.0001.
repr(x) ==
    LET ip == x \div One
        fr == x % One
    IN  IF fr = 0 THEN ToString(ip) \o ".0"
        ELSE IF x >= One \div 10000
             THEN ToString(ip) \o "." \o Pad(Strip(fr), 7 - NZeros(fr))
        ELSE LET m == Strip(x)
                 e == 7 - (NDigits(x) - 1)
                 d == NDigits(m)
             IN  (IF d = 1 THEN ToString(m)
                  ELSE ToString(m \div (10 ^ (d - 1))) \o "."
                       \o Pad(m % (10 ^ (d - 1)), d - 1))
                 \o "e-" \o Pad(e, 2)

\* f"{x:.3f}".
Step3 == One \div (10 ^ 3)

fmt3(x) ==
    LET q == RoundTo(x, Step3, Up(x, Step3)) \div Step3
    IN  ToString(q \div 1000) \o "." \o Pad(q % 1000, 3)

-----------------------------------------------------------------------------
(* The expressions of the script.                                          *)

\* Line 12 without sorted(): the set's iteration order is kept.
lambdas_unsorted(coarse, fine) == list(set(coarse \o fine))

\* Line 12 without set(): a value listed twice is kept twice.
lambdas_with_repeats(coarse, fine) == {sorted(coarse \o fine)}

\* line 12, for each iteration order of the set.
lambdas_of(coarse, fine) == {sorted(xs) : xs \in list(set(coarse \o fine))}

\* line 30
lambda_x_of(lam) == round6(lam)

\* Line 31 rounding to 3 decimal places.
lambda_zz_3_places(lam) == RoundTo(One - lam, Step3, Up(One - lam, Step3))

\* line 31
lambda_zz_of(lam) == round6(One - lam)

\* Line 32 with a 0-based identifier.
seed_zero_based(base, id) == base + id - 1

\* line 32
seed_of(base, id) == base + id

\* line 33
out_prefix_of(L, lam, s) ==
    "L" \o ToString(L) \o "_lam" \o fmt3(lam) \o "_s" \o ToString(s)

\* Line 35 with the coupling value in the prefix's 3-decimal format.
line_with_fmt3(L, lam, s, id) ==
    "--L " \o ToString(L)
    \o " --lambda_x " \o repr(lambda_x_of(lam))
    \o " --lambda_zz " \o repr(lambda_zz_of(lam))
    \o " --lambda " \o fmt3(lam)
    \o " --maxdim " \o ToString(maxdim)
    \o " --cutoff " \o cutoff
    \o " --ntrials " \o ToString(ntrials)
    \o " --chunk4 " \o ToString(chunk4)
    \o " --seed " \o ToString(seed_of(base_seed, id))
    \o " --sample " \o ToString(s)
    \o " --out_prefix " \o out_prefix_of(L, lam, s)
    \o " --outdir " \o outdir

\* line 35
line_of(L, lam, s, id) ==
    "--L " \o ToString(L)
    \o " --lambda_x " \o repr(lambda_x_of(lam))
    \o " --lambda_zz " \o repr(lambda_zz_of(lam))
    \o " --lambda " \o repr(lam)
    \o " --maxdim " \o ToString(maxdim)
    \o " --cutoff " \o cutoff
    \o " --ntrials " \o ToString(ntrials)
    \o " --chunk4 " \o ToString(chunk4)
    \o " --seed " \o ToString(seed_of(base_seed, id))
    \o " --sample " \o ToString(s)
    \o " --out_prefix " \o out_prefix_of(L, lam, s)
    \o " --outdir " \o outdir

\* lines 43-47
summary ==
    << "Generated " \o ToString(Len(lines)) \o " parameter combinations",
       "System sizes: " \o ToString(Len(Ls)),
       "Lambda values: " \o ToString(Len(lambdas)),
       "Samples per lambda: " \o ToString(samples_per_lambda),
       "Total: " \o ToString(Len(Ls)) \o " × " \o ToString(Len(lambdas))
           \o " × " \o ToString(samples_per_lambda) \o " = "
           \o ToString(Len(lines)) \o " jobs" >>

-----------------------------------------------------------------------------
(* Configurations.                                                         *)

SeqsUpTo(S, n) == UNION {[1..m -> S] : m \in 0..n}

\* The lists of up to n values of S written in ascending order, repeats
\* allowed, as the literals of lines 10 and 11 are written (line 12 keeps
\* nothing of the order of either list).
Ascending(S, n) ==
    {s \in SeqsUpTo(S, n) : \A i \in 1..(Len(s) - 1) : s[i] <= s[i + 1]}

NoRepeat(s) == \A i, j \in 1..Len(s) : i # j => s[i] # s[j]

SizeLists == {s \in SeqsUpTo(SizeValues, Cardinality(SizeValues)) : NoRepeat(s)}

\* The values the run rounds that lie half way, each with its step.
HalfWays(coarse, fine) ==
    LET vs == set(coarse \o fine)
    IN  {<<v, Step6>> : v \in {w \in vs : IsHalfWay(w, Step6)}}
        \cup {<<One - v, Step6>> : v \in {w \in vs : IsHalfWay(One - w, Step6)}}
        \cup {<<v, Step3>> : v \in {w \in vs : IsHalfWay(w, Step3)}}

\* The literals of the script (lines 7, 10, 11, 15, 20).
ProductionLs == <<12, 16, 20, 24, 28>>

ProductionCoarse ==
    <<1000000, 2000000, 3000000, 4000000, 6000000, 7000000, 8000000, 9000000>>

ProductionFine ==
    <<4600000, 4700000, 4800000, 4900000, 5000000, 5100000, 5200000, 5300000,
      5400000>>

ProductionSamples == 3

ProductionSeed == 1234

IsProduction ==
    /\ Ls = ProductionLs
    /\ coarse_lambdas = ProductionCoarse
    /\ fine_lambdas = ProductionFine
    /\ samples_per_lambda = ProductionSamples
    /\ base_seed = ProductionSeed

NoFile == [exists |-> FALSE, data |-> <<>>]

StaleFile == [exists |-> TRUE, data |-> <<"stale\n">>]

\* The process state before line 7 runs.
Fresh ==
    /\ lambdas = <<>>
    /\ lines = <<>>
    /\ job_id = 0
    /\ iL = 0
    /\ iLam = 0
    /\ sample = 0
    /\ k = 0
    /\ pc = "start"
    /\ stdout = <<>>
    /\ jobs = <<>>

Init ==
    /\ \/ /\ Ls \in SizeLists
          /\ coarse_lambdas \in Ascending(LamValues, MaxCoarse)
          /\ fine_lambdas \in Ascending(LamValues, MaxFine)
          /\ samples_per_lambda \in 0..MaxSamples
          /\ base_seed \in BaseSeeds
          /\ dir_exists \in BOOLEAN
          /\ file \in IF dir_exists THEN {NoFile, StaleFile} ELSE {NoFile}
       \/ /\ Ls = ProductionLs
          /\ coarse_lambdas = ProductionCoarse
          /\ fine_lambdas = ProductionFine
          /\ samples_per_lambda = ProductionSamples
          /\ base_seed = ProductionSeed
          /\ dir_exists \in BOOLEAN
          /\ file = NoFile
    /\ fp \in [HalfWays(coarse_lambdas, fine_lambdas) -> BOOLEAN]
    /\ file_before = file
    /\ Fresh

-----------------------------------------------------------------------------
(* The steps of the script.                                                *)

\* lines 7-24: the assignments before the loops.
Start ==
    /\ pc = "start"
    /\ lambdas' \in lambdas_of(coarse_lambdas, fine_lambdas)
    /\ lines' = <<>>
    /\ job_id' = 0
    /\ pc' = "forL"
    /\ UNCHANGED <<config, iL, iLam, sample, k, dir_exists, file, stdout, file_before, jobs>>

\* line 26: the next size.
ForL ==
    /\ pc = "forL"
    /\ iL < Len(Ls)
    /\ iL' = iL + 1
    /\ iLam' = 0
    /\ pc' = "forLam"
    /\ UNCHANGED <<config, lambdas, lines, job_id, sample, k, dir_exists, file,
                   stdout, file_before, jobs>>

\* line 26: the sizes are exhausted.
ForLEnd ==
    /\ pc = "forL"
    /\ iL >= Len(Ls)
    /\ pc' = "open"
    /\ UNCHANGED <<config, lambdas, lines, job_id, iL, iLam, sample, k,
                   dir_exists, file, stdout, file_before, jobs>>

\* line 27: the next coupling value.
ForLam ==
    /\ pc = "forLam"
    /\ iLam < Len(lambdas)
    /\ iLam' = iLam + 1
    /\ sample' = 0
    /\ pc' = "forSample"
    /\ UNCHANGED <<config, lambdas, lines, job_id, iL, k, dir_exists, file,
                   stdout, file_before, jobs>>

\* line 27: the coupling values are exhausted.
ForLamEnd ==
    /\ pc = "forLam"
    /\ iLam >= Len(lambdas)
    /\ pc' = "forL"
    /\ UNCHANGED <<config, lambdas, lines, job_id, iL, iLam, sample, k,
                   dir_exists, file, stdout, file_before, jobs>>

\* The record of one execution of lines 29-36.
job_of(pos, L, lam, s, id) ==
    [ pos        |-> pos,
      L          |-> L,
      lam        |-> lam,
      sample     |-> s,
      job_id     |-> id,
      lambda_x   |-> lambda_x_of(lam),
      lambda_zz  |-> lambda_zz_of(lam),
      seed       |-> seed_of(base_seed, id),
      out_prefix |-> out_prefix_of(L, lam, s),
      line       |-> line_of(L, lam, s, id) ]

\* The identifier of line 29.
next_job_id(id) == id + 1

\* Line 28 as range(1, samples_per_lambda).
sample_range_short == 1..(samples_per_lambda - 1)

\* Line 28 with the end of the range included.
sample_range_inclusive == 1..(samples_per_lambda + 1)

\* line 28: range(1, samples_per_lambda + 1).
sample_range == 1..samples_per_lambda

\* lines 28-36: the next replica and the loop body.
Body ==
    /\ pc = "forSample"
    /\ sample + 1 \in sample_range
    /\ sample' = sample + 1
    /\ job_id' = next_job_id(job_id)
    /\ LET j == job_of(iL, Ls[iL], lambdas[iLam], sample', job_id')
       IN  /\ lines' = Append(lines, j.line)
           /\ jobs' = Append(jobs, j)
    /\ UNCHANGED <<config, lambdas, iL, iLam, k, pc, dir_exists, file, stdout,
                   file_before>>

\* line 28: the replicas are exhausted.
ForSampleEnd ==
    /\ pc = "forSample"
    /\ sample + 1 \notin sample_range
    /\ pc' = "forLam"
    /\ UNCHANGED <<config, lambdas, lines, job_id, iL, iLam, sample, k,
                   dir_exists, file, stdout, file_before, jobs>>

\* open(path, "a"): the contents are kept.
opened_for_append(f) == [exists |-> TRUE, data |-> f.data]

\* What open(path, "w") leaves of the file.
opened(f) == [exists |-> TRUE, data |-> <<>>]

\* line 39: open(..., "w") creates or truncates the file.
Open ==
    /\ pc = "open"
    /\ dir_exists
    /\ file' = opened(file)
    /\ k' = 0
    /\ pc' = "write"
    /\ UNCHANGED <<config, lambdas, lines, job_id, iL, iLam, sample,
                   dir_exists, stdout, file_before, jobs>>

\* The error caught and passed over: the summary is still printed.
after_open_error_caught == "print"

\* The control point after open() raised.
after_open_error == "failed"

\* line 39: open() raises FileNotFoundError; nothing catches it.
OpenFail ==
    /\ pc = "open"
    /\ ~dir_exists
    /\ pc' = after_open_error
    /\ UNCHANGED <<config, lambdas, lines, job_id, iL, iLam, sample, k,
                   dir_exists, file, stdout, file_before, jobs>>

\* The text of line 41's write.
written(line) == line \o "\n"

\* lines 40-41: one line written.
Write ==
    /\ pc = "write"
    /\ k < Len(lines)
    /\ file' = [file EXCEPT !.data = Append(@, written(lines[k + 1]))]
    /\ k' = k + 1
    /\ UNCHANGED <<config, lambdas, lines, job_id, iL, iLam, sample, pc,
                   dir_exists, stdout, file_before, jobs>>

\* lines 40-41: every line written; the with block closes the file.
WriteEnd ==
    /\ pc = "write"
    /\ k >= Len(lines)
    /\ pc' = "print"
    /\ UNCHANGED <<config, lambdas, lines, job_id, iL, iLam, sample, k,
                   dir_exists, file, stdout, file_before, jobs>>

\* lines 43-47: the summary; the process exits with status 0.
PrintSummary ==
    /\ pc = "print"
    /\ stdout' = stdout \o summary
    /\ pc' = "done"
    /\ UNCHANGED <<config, lambdas, lines, job_id, iL, iLam, sample, k,
                   dir_exists, file, file_before, jobs>>

\* The script is run again: a new process, the same constants, the file
\* system as the last run left it.
Rerun ==
    /\ pc \in {"done", "failed"}
    /\ lambdas' = <<>>
    /\ lines' = <<>>
    /\ job_id' = 0
    /\ iL' = 0
    /\ iLam' = 0
    /\ sample' = 0
    /\ k' = 0
    /\ pc' = "start"
    /\ stdout' = <<>>
    /\ jobs' = <<>>
    /\ file_before' = file
    /\ UNCHANGED <<config, dir_exists, file>>

Next ==
    \/ Start
    \/ ForL
    \/ ForLEnd
    \/ ForLam
    \/ ForLamEnd
    \/ Body
    \/ ForSampleEnd
    \/ Open
    \/ OpenFail
    \/ Write
    \/ WriteEnd
    \/ PrintSummary
    \/ Rerun

Spec == Init /\ [][Next]_vars

-----------------------------------------------------------------------------
(* Properties.                                                             *)

\* The loops of lines 26-36 have run to their end.
LoopsDone == pc \in {"open", "write", "print", "done", "failed"}

\* The distinct coupling values of the two lists.
Distinct == set(coarse_lambdas \o fine_lambdas)

Abs(n) == IF n < 0 THEN -n ELSE n

\* C1: the identifiers of the lines built so far are 1, 2, ... in the order
\* of the lines, one per line with no gap and no repeat (so exactly
\* 1..total_count once the loops are done), the seed of the line with
\* identifier i is base_seed + i, and with the script's base seed 1234 the
\* first line's seed is 1235.
C1_Identifiers ==
    /\ Len(jobs) = job_id
    /\ Len(lines) = job_id
    /\ \A i \in 1..Len(jobs) :
          /\ jobs[i].job_id = i
          /\ jobs[i].seed = base_seed + i
          /\ lines[i] = jobs[i].line
    /\ {jobs[i].job_id : i \in 1..Len(jobs)} = 1..Len(lines)
    /\ (IsProduction /\ Len(jobs) >= 1) => jobs[1].seed = 1235

C1_Witness ==
    /\ pc = "done"
    /\ IsProduction
    /\ Len(lines) = 255
    /\ jobs[255].job_id = 255
    /\ jobs[255].seed = 1489

\* a is enumerated before b: size-major, coupling-next, replica-minor.
Before(a, b) ==
    \/ a.pos < b.pos
    \/ a.pos = b.pos /\ a.lam < b.lam
    \/ a.pos = b.pos /\ a.lam = b.lam /\ a.sample < b.sample

\* Two sizes, two distinct coupling values and two replicas.
TwoByTwoByTwo ==
    /\ Len(Ls) = 2
    /\ Cardinality(Distinct) = 2
    /\ samples_per_lambda = 2

\* C2: once the loops are done, of any two lines the one with the smaller
\* identifier has the earlier size in Ls, or the same size and a smaller
\* coupling value, or the same size and coupling value and a smaller replica
\* index; the size of a line is the one at its position in Ls; and two
\* sizes, two distinct coupling values and two replicas give exactly 8
\* lines, the line with identifier i being that of the i-th combination
\* (size-major, coupling-next, replica-minor).
C2_EnumerationOrder ==
    LoopsDone =>
        /\ \A i, j \in 1..Len(jobs) :
              jobs[i].job_id < jobs[j].job_id => Before(jobs[i], jobs[j])
        /\ \A i \in 1..Len(jobs) : jobs[i].L = Ls[jobs[i].pos]
        /\ TwoByTwoByTwo =>
              /\ Len(lines) = 8
              /\ \A i \in 1..8 :
                    /\ jobs[i].job_id = i
                    /\ jobs[i].pos = ((i - 1) \div 4) + 1
                    /\ jobs[i].lam = lambdas[(((i - 1) \div 2) % 2) + 1]
                    /\ jobs[i].sample = ((i - 1) % 2) + 1

C2_Witness ==
    /\ pc = "done"
    /\ TwoByTwoByTwo
    /\ Ls = <<16, 12>>
    /\ Len(lines) = 8
    /\ jobs[5].L = 12
    /\ jobs[5].lam < jobs[7].lam

\* C3: once the loops are done the number of lines is (number of sizes) x
\* (number of distinct coupling values of the two lists) x (replica count);
\* with the script's literals that is 5 x 17 x 3 = 255; and the summary of
\* a finished run reports, as its total, the number of lines written to the
\* file.
C3_Count ==
    /\ LoopsDone =>
          Len(lines) = Len(Ls) * Cardinality(Distinct) * samples_per_lambda
    /\ (LoopsDone /\ IsProduction) =>
          /\ Len(Ls) = 5
          /\ Cardinality(Distinct) = 17
          /\ samples_per_lambda = 3
          /\ Len(lines) = 255
    /\ pc = "done" =>
          /\ Len(stdout) = 5
          /\ stdout[1] = "Generated " \o ToString(Len(file.data))
                             \o " parameter combinations"
          /\ stdout[5] = "Total: " \o ToString(Len(Ls)) \o " × "
                             \o ToString(Cardinality(Distinct)) \o " × "
                             \o ToString(samples_per_lambda) \o " = "
                             \o ToString(Len(file.data)) \o " jobs"

C3_Witness ==
    /\ pc = "done"
    /\ IsProduction
    /\ Len(file.data) = 255
    /\ stdout[1] = "Generated 255 parameter combinations"
    /\ stdout[5] = "Total: 5 × 17 × 3 = 255 jobs"

\* C4: the coupling axis holds every value of either list exactly once and
\* nothing else, and is strictly ascending.
C4_CouplingAxis ==
    pc # "start" =>
        /\ Range(lambdas) = Range(coarse_lambdas) \cup Range(fine_lambdas)
        /\ \A v \in Range(coarse_lambdas) \cup Range(fine_lambdas) :
              Cardinality({i \in 1..Len(lambdas) : lambdas[i] = v}) = 1
        /\ \A i, j \in 1..Len(lambdas) : i < j => lambdas[i] < lambdas[j]

\* A value twice in the coarse list and again in the fine list, which also
\* holds a smaller value.
C4_Witness ==
    /\ pc = "done"
    /\ Len(coarse_lambdas) = 2
    /\ coarse_lambdas[1] = coarse_lambdas[2]
    /\ Len(fine_lambdas) = 1
    /\ fine_lambdas[1] < coarse_lambdas[1]
    /\ Len(lambdas) = 2

SingleJobScenario ==
    /\ Ls = <<12>>
    /\ coarse_lambdas = <<5000000>>
    /\ fine_lambdas = <<5000000>>
    /\ samples_per_lambda = 1
    /\ base_seed = 1000

SingleJobLine ==
    "--L 12 --lambda_x 0.5 --lambda_zz 0.5 --lambda 0.5 --maxdim 256 --cutoff 1e-12 --ntrials 1000 --chunk4 50000 --seed 1001 --sample 1 --out_prefix L12_lam0.500_s1 --outdir output"

\* C6: in the single-job scenario the loops build exactly one line, the
\* twelve fields in the fixed order with the stated values, and a finished
\* run leaves exactly that line in the file.
C6_SingleJob ==
    SingleJobScenario =>
        /\ LoopsDone => lines = <<SingleJobLine>>
        /\ pc = "done" => file.data = <<SingleJobLine \o "\n">>

C6_Witness ==
    /\ SingleJobScenario
    /\ pc = "done"
    /\ Len(file.data) = 1

\* C7: on every line lambda_x + lambda_zz differs from 1.0 by at most 10^-6.
C7_ComplementSum ==
    \A i \in 1..Len(jobs) :
        Abs(jobs[i].lambda_x + jobs[i].lambda_zz - One) <= Step6

\* A line whose coupling value lies half way at 6 decimal places and whose
\* two rounded values do not add up to 1.0.
C7_Witness ==
    \E i \in 1..Len(jobs) :
        /\ IsHalfWay(jobs[i].lam, Step6)
        /\ jobs[i].lambda_x + jobs[i].lambda_zz = One + Step6

\* C8: while jobs/ does not exist no file is created, nothing is printed and
\* the run never gets past the open of line 39; at that open the process
\* fails, and fails nowhere else; and the failed process takes no further
\* step (only a new run follows).
C8_MissingDirectory ==
    /\ [](~dir_exists =>
            /\ pc \notin {"write", "print", "done"}
            /\ file = NoFile
            /\ stdout = <<>>)
    /\ [](pc = "failed" => ~dir_exists)
    /\ [][/\ (pc = "open" /\ ~dir_exists) => pc' = "failed"
          /\ pc' = "failed" => (pc = "open" /\ ~dir_exists /\ file' = file)
          /\ pc = "failed" => pc' = "start"]_vars

C8_Witness ==
    /\ pc = "failed"
    /\ ~dir_exists
    /\ Len(lines) = 8
    /\ file = NoFile
    /\ stdout = <<>>

AnyAxisEmpty ==
    \/ Ls = <<>>
    \/ coarse_lambdas = <<>> /\ fine_lambdas = <<>>
    \/ samples_per_lambda = 0

\* What a finished run of zero jobs leaves.
ZeroJobsOutcome ==
    /\ file = [exists |-> TRUE, data |-> <<>>]
    /\ Len(stdout) = 5
    /\ stdout[1] = "Generated 0 parameter combinations"
    /\ stdout[5] = "Total: " \o ToString(Len(Ls)) \o " × "
                       \o ToString(Cardinality(Distinct)) \o " × "
                       \o ToString(samples_per_lambda) \o " = 0 jobs"

\* C9 as stated: with an empty axis the run assigns no identifier, does not
\* fail, and ends with an empty file and a summary of zero jobs.
C9_EmptyAxisSucceeds ==
    AnyAxisEmpty =>
        /\ job_id = 0
        /\ lines = <<>>
        /\ pc # "failed"
        /\ pc = "done" => ZeroJobsOutcome

\* C9 amended: with an empty axis the run assigns no identifier; if jobs/
\* exists it does not fail, it can take a step until it is done, and it ends
\* with an empty file and a summary of zero jobs.
C9_EmptyAxisSucceedsInDirectory ==
    AnyAxisEmpty =>
        /\ job_id = 0
        /\ lines = <<>>
        /\ dir_exists =>
              /\ pc # "failed"
              /\ pc # "done" => ENABLED Next
              /\ pc = "done" => ZeroJobsOutcome

C9_Witness ==
    /\ pc = "done"
    /\ Ls = <<16, 12>>
    /\ Len(coarse_lambdas) = 2
    /\ samples_per_lambda = 0
    /\ file_before = StaleFile
    /\ ZeroJobsOutcome

\* C10: a finished run leaves in the file exactly the built lines, each
\* followed by a newline, in identifier order, whatever the file held
\* before; and a run that starts from the file a finished run left leaves
\* the same file.
C10_Overwrite ==
    pc = "done" =>
        /\ file.exists
        /\ file.data = [i \in 1..Len(lines) |-> lines[i] \o "\n"]
        /\ \A i \in 1..Len(jobs) : file.data[i] = jobs[i].line \o "\n"
        /\ file_before \notin {NoFile, StaleFile} => file = file_before

\* The end of a second run that found the first run's two or more lines.
C10_Witness ==
    /\ pc = "done"
    /\ file_before.exists
    /\ file_before # StaleFile
    /\ Len(file_before.data) >= 2
    /\ file = file_before

====
